---- MODULE Spec2Model ----
(***************************************************************************)
(* x402 payment gate: the nonce ledger (NonceStore), the proof codec and   *)
(* signature verifier (verify.js) and the /premium handler.                *)
(*                                                                         *)
(* Every Express handler and the gc timer callback runs to completion on   *)
(* the single JavaScript thread (handlePremium contains no await), so one  *)
(* action is one whole handler.                                            *)
(*                                                                         *)
(* Text is modelled as a sequence of chunks: the chunk ":" is the colon    *)
(* character, every other chunk is a run of characters without a colon.    *)
(* Time is Date.now() in milliseconds, counted from process start.         *)
(***************************************************************************)
EXTENDS Integers, Sequences, FiniteSets, TLC

VARIABLES
    now,            \* Date.now()
    map,            \* NonceStore.map : nonce -> [createdAt, expiresAt, used]
    issued,         \* number of uuidv4() values drawn so far
    gcDue,          \* the setInterval timer has fired and its gc() callback is pending
    TTL_SECONDS,    \* process.env.TTL_SECONDS
    RECEIVER_SOL,   \* process.env.RECEIVER_SOL ('' when unset)
    RECEIVER_EVM,   \* process.env.RECEIVER_EVM ('' when unset)
    res,            \* what the last step did: a summary of the request and its response
    okCount,        \* history: nonce -> number of verifyAndUse calls that returned ok
    expiry          \* history: nonce -> the expiresAt issue() gave it (-1: not issued)

vars == <<now, map, issued, gcDue, TTL_SECONDS, RECEIVER_SOL,
          RECEIVER_EVM, res, okCount, expiry>>

(***************************************************************************)
(* Bounds                                                                  *)
(***************************************************************************)
MaxNonces == 2      \* issue() calls in a run
MaxTicks == 3       \* timer periods in a run

(***************************************************************************)
(* Program constants                                                       *)
(***************************************************************************)
GcIntervalMs == 60000     \* setInterval(() => this.gc(), 60 * 1000)
GcGraceMs == 60000        \* now > e.expiresAt + 60_000
MsPerSecond == 1000       \* now + this.ttl * 1000
ProofFields == 4          \* parts.length !== 4

\* A JavaScript string is a sequence of chunks; Str(c) is the one-chunk string.
Str(c) == <<c>>

EmptyString == <<>>

\* The JavaScript value undefined (an absent field).
Undefined == <<"undefined">>

Colon == ":"

\* The values uuidv4() returns, in order: all distinct (a random UUID is
\* taken never to repeat).
UuidStream == <<"u1", "u2", "u3", "u4">>

uuidv4(k) == Str(UuidStream[k])

\* Nonces a caller may put into a proof header: each is presented both
\* before issue() has returned it (a nonce the ledger never issued) and after.
HeaderNonces == {uuidv4(i) : i \in 1..MaxNonces}

\* Values of TTL_SECONDS (seconds): one timer period.
TtlChoices == {60}

(***************************************************************************)
(* NonceStore                                                              *)
(***************************************************************************)
EmptyMap == [n \in {} |-> Undefined]

MapSet(m, k, v) == [n \in DOMAIN m \cup {k} |-> IF n = k THEN v ELSE m[n]]

MapDelete(m, dead) == [n \in DOMAIN m \ dead |-> m[n]]

\* issue(): the entry it stores under the fresh nonce.
issue(m, k, t, ttl) ==
    LET nonce == uuidv4(k + 1)
    IN  [map |-> MapSet(m, nonce, [createdAt |-> t,
                                   expiresAt |-> t + ttl * MsPerSecond,
                                   used |-> FALSE]),
         nonce |-> nonce]

\* Mutant: the used flag is not checked.
verifyAndUse_NoUsedCheck(m, t, nonce) ==
    IF nonce \notin DOMAIN m
    THEN [map |-> m, ok |-> FALSE, reason |-> Str("nonce_not_found")]
    ELSE IF t > m[nonce].expiresAt
    THEN [map |-> m, ok |-> FALSE, reason |-> Str("nonce_expired")]
    ELSE [map |-> MapSet(m, nonce, [m[nonce] EXCEPT !.used = TRUE]),
          ok |-> TRUE, reason |-> Undefined]

\* Mutant: the expiry is not checked.
verifyAndUse_NoExpiryCheck(m, t, nonce) ==
    IF nonce \notin DOMAIN m
    THEN [map |-> m, ok |-> FALSE, reason |-> Str("nonce_not_found")]
    ELSE IF m[nonce].used
    THEN [map |-> m, ok |-> FALSE, reason |-> Str("nonce_replayed")]
    ELSE [map |-> MapSet(m, nonce, [m[nonce] EXCEPT !.used = TRUE]),
          ok |-> TRUE, reason |-> Undefined]

\* Mutant: the used flag is checked before the expiry.
verifyAndUse_ReplayFirst(m, t, nonce) ==
    IF nonce \notin DOMAIN m
    THEN [map |-> m, ok |-> FALSE, reason |-> Str("nonce_not_found")]
    ELSE IF m[nonce].used
    THEN [map |-> m, ok |-> FALSE, reason |-> Str("nonce_replayed")]
    ELSE IF t > m[nonce].expiresAt
    THEN [map |-> m, ok |-> FALSE, reason |-> Str("nonce_expired")]
    ELSE [map |-> MapSet(m, nonce, [m[nonce] EXCEPT !.used = TRUE]),
          ok |-> TRUE, reason |-> Undefined]

verifyAndUse(m, t, nonce) ==
    IF nonce \notin DOMAIN m
    THEN [map |-> m, ok |-> FALSE, reason |-> Str("nonce_not_found")]
    ELSE IF t > m[nonce].expiresAt
    THEN [map |-> m, ok |-> FALSE, reason |-> Str("nonce_expired")]
    ELSE IF m[nonce].used
    THEN [map |-> m, ok |-> FALSE, reason |-> Str("nonce_replayed")]
    ELSE [map |-> MapSet(m, nonce, [m[nonce] EXCEPT !.used = TRUE]),
          ok |-> TRUE, reason |-> Undefined]

\* Mutant: expired entries are evicted without the grace period.
gc_NoGrace(m, t) ==
    MapDelete(m, {n \in DOMAIN m : m[n].used \/ t > m[n].expiresAt})

\* Mutant: only consumed entries are evicted.
gc_OnlyUsed(m, t) ==
    MapDelete(m, {n \in DOMAIN m : m[n].used})

\* Mutant: the grace period is counted from the creation of the entry.
gc_GraceFromCreation(m, t) ==
    MapDelete(m, {n \in DOMAIN m : m[n].used \/ t > m[n].createdAt + GcGraceMs})

gc(m, t) ==
    MapDelete(m, {n \in DOMAIN m : m[n].used \/ t > m[n].expiresAt + GcGraceMs})

(***************************************************************************)
(* verify.js: proof codec                                                  *)
(***************************************************************************)
HasColon(s) == \E i \in 1..Len(s) : s[i] = Colon

FirstColon(s) == CHOOSE i \in 1..Len(s) : s[i] = Colon /\ \A j \in 1..(i - 1) : s[j] # Colon

\* String.prototype.split(':')
RECURSIVE split(_)
split(s) ==
    IF ~HasColon(s) THEN <<s>>
    ELSE <<SubSeq(s, 1, FirstColon(s) - 1)>> \o split(SubSeq(s, FirstColon(s) + 1, Len(s)))

\* The wallets of the model.  SolKey is a base58 public key (32 bytes);
\* EvmChecksum is the mixed-case rendering ethers gives an address and
\* EvmLower the same address in lower case; EvmOther is an unrelated address.
SolKey == Str("So1")
EvmChecksum == Str("0xAbC")
EvmLower == Str("0xabc")
EvmOther == Str("0xDeF")

LowerChunk(c) ==
    CASE c = "0xAbC" -> "0xabc"
      [] c = "0xDeF" -> "0xdef"
      [] c = "EVM" -> "evm"
      [] c = "SOLANA" -> "solana"
      [] OTHER -> c

\* String.prototype.toLowerCase()
toLowerCase(s) == [i \in DOMAIN s |-> LowerChunk(s[i])]

\* Signature bytes are modelled by what decides the libraries' answers: the
\* scheme (which fixes the length), the signing wallet and the signed nonce.
\* Base64Sig(w, n) is the base64 text of the signature wallet w makes over
\* "x402-proof:" + n; any other text decodes to bytes that are no signature.
Base64Sig(w, n) == <<"b64sig", w[1], n[1]>>

JunkBytes == [scheme |-> "junk", signer |-> EmptyString, nonce |-> EmptyString]

\* Buffer.from(b64sig, 'base64'): decodes leniently, never throws.
BufferFromBase64(text) ==
    IF Len(text) = 3 /\ text[1] = "b64sig"
    THEN [scheme |-> IF Str(text[2]) = SolKey THEN "ed25519" ELSE "secp256k1",
          signer |-> Str(text[2]), nonce |-> Str(text[3])]
    ELSE JunkBytes

\* Mutant: the account and nonce fields are taken in the wrong order.
parseProof_SwapAccountNonce(header) ==
    IF header = EmptyString
    THEN [ok |-> FALSE, reason |-> Str("missing_header"), kind |-> Undefined,
          account |-> Undefined, nonce |-> Undefined, sigBytes |-> Undefined]
    ELSE LET parts == split(header)
         IN  IF Len(parts) # ProofFields
             THEN [ok |-> FALSE, reason |-> Str("bad_format"), kind |-> Undefined,
                   account |-> Undefined, nonce |-> Undefined, sigBytes |-> Undefined]
             ELSE IF parts[1] # Str("phantom") /\ parts[1] # Str("metamask")
             THEN [ok |-> FALSE, reason |-> Str("bad_kind"), kind |-> Undefined,
                   account |-> Undefined, nonce |-> Undefined, sigBytes |-> Undefined]
             ELSE [ok |-> TRUE, reason |-> Undefined, kind |-> parts[1],
                   account |-> parts[3], nonce |-> parts[2],
                   sigBytes |-> BufferFromBase64(parts[4])]

parseProof(header) ==
    IF header = EmptyString
    THEN [ok |-> FALSE, reason |-> Str("missing_header"), kind |-> Undefined,
          account |-> Undefined, nonce |-> Undefined, sigBytes |-> Undefined]
    ELSE LET parts == split(header)
         IN  IF Len(parts) # ProofFields
             THEN [ok |-> FALSE, reason |-> Str("bad_format"), kind |-> Undefined,
                   account |-> Undefined, nonce |-> Undefined, sigBytes |-> Undefined]
             ELSE IF parts[1] # Str("phantom") /\ parts[1] # Str("metamask")
             THEN [ok |-> FALSE, reason |-> Str("bad_kind"), kind |-> Undefined,
                   account |-> Undefined, nonce |-> Undefined, sigBytes |-> Undefined]
             ELSE [ok |-> TRUE, reason |-> Undefined, kind |-> parts[1],
                   account |-> parts[2], nonce |-> parts[3],
                   sigBytes |-> BufferFromBase64(parts[4])]

(***************************************************************************)
(* verify.js: signature verifier.  A library call either returns a value   *)
(* or throws.                                                              *)
(***************************************************************************)
Threw == [threw |-> TRUE, value |-> Undefined]

Returned(v) == [threw |-> FALSE, value |-> v]

\* bs58.decode: the key bytes, or an error on a character outside base58
\* ('0' is outside it, so every 0x address fails to decode).
bs58decode(account) == IF account = SolKey THEN Returned(account) ELSE Threw

\* nacl.sign.detached.verify(msg, sig, publicKey): throws on a signature that
\* is not 64 bytes.
naclVerify(nonce, sigBytes, pub) ==
    IF sigBytes.scheme # "ed25519" THEN Threw
    ELSE Returned(sigBytes.signer = pub /\ sigBytes.nonce = nonce)

\* ethers.utils.verifyMessage(message, hexSig): the recovered address in
\* checksum case; throws on bytes that are no 64/65-byte signature.
verifyMessage(nonce, sigBytes) ==
    IF sigBytes.scheme = "junk" THEN Threw
    ELSE IF sigBytes.scheme = "secp256k1" /\ sigBytes.nonce = nonce
    THEN Returned(sigBytes.signer)
    ELSE Returned(EvmOther)

\* Mutant: no try/catch, a library error leaves the function as an exception.
verifyPhantom_NoCatch(accountBase58, sigBytes, nonce) ==
    LET pub == bs58decode(accountBase58)
        ok == IF pub.threw THEN Threw ELSE naclVerify(nonce, sigBytes, pub.value)
    IN  IF ok.threw
        THEN Threw
        ELSE [ok |-> ok.value, reason |-> Undefined,
              who |-> accountBase58, chain |-> Str("solana")]

verifyPhantom(accountBase58, sigBytes, nonce) ==
    LET pub == bs58decode(accountBase58)
        ok == IF pub.threw THEN Threw ELSE naclVerify(nonce, sigBytes, pub.value)
    IN  IF ok.threw
        THEN [ok |-> FALSE, reason |-> Str("phantom_verify_error"),
              who |-> Undefined, chain |-> Undefined]
        ELSE [ok |-> ok.value, reason |-> Undefined,
              who |-> accountBase58, chain |-> Str("solana")]

\* Mutant: the verdict carries the other scheme's chain tag.
verifyMetaMask_WrongChain(accountAddress, sigBytes, nonce) ==
    LET recovered == verifyMessage(nonce, sigBytes)
    IN  IF recovered.threw
        THEN [ok |-> FALSE, reason |-> Str("metamask_verify_error"),
              who |-> Undefined, chain |-> Undefined]
        ELSE [ok |-> toLowerCase(recovered.value) = toLowerCase(accountAddress),
              reason |-> Undefined, who |-> recovered.value, chain |-> Str("solana")]

\* Mutant: the addresses are compared as written.
verifyMetaMask_CaseSensitive(accountAddress, sigBytes, nonce) ==
    LET recovered == verifyMessage(nonce, sigBytes)
    IN  IF recovered.threw
        THEN [ok |-> FALSE, reason |-> Str("metamask_verify_error"),
              who |-> Undefined, chain |-> Undefined]
        ELSE [ok |-> recovered.value = accountAddress,
              reason |-> Undefined, who |-> recovered.value, chain |-> Str("evm")]

verifyMetaMask(accountAddress, sigBytes, nonce) ==
    LET recovered == verifyMessage(nonce, sigBytes)
    IN  IF recovered.threw
        THEN [ok |-> FALSE, reason |-> Str("metamask_verify_error"),
              who |-> Undefined, chain |-> Undefined]
        ELSE [ok |-> toLowerCase(recovered.value) = toLowerCase(accountAddress),
              reason |-> Undefined, who |-> recovered.value, chain |-> Str("evm")]

verifyProof(header) ==
    LET parsed == parseProof(header)
    IN  IF ~parsed.ok
        THEN [ok |-> FALSE, reason |-> parsed.reason, who |-> Undefined, chain |-> Undefined]
        ELSE IF parsed.kind = Str("phantom")
        THEN verifyPhantom(parsed.account, parsed.sigBytes, parsed.nonce)
        ELSE IF parsed.kind = Str("metamask")
        THEN verifyMetaMask(parsed.account, parsed.sigBytes, parsed.nonce)
        ELSE [ok |-> FALSE, reason |-> Str("unknown_kind"), who |-> Undefined, chain |-> Undefined]

(***************************************************************************)
(* Requests the callers send                                               *)
(***************************************************************************)
Header(kind, account, nonce, b64sig) ==
    kind \o Str(Colon) \o account \o Str(Colon) \o nonce \o Str(Colon) \o b64sig

\* For every nonce a caller may name: the two proofs that verify, one per
\* scheme, and two that do not (a signature of the other scheme each).
WellFormedHeaders ==
    UNION {{Header(Str("phantom"), SolKey, n, Base64Sig(SolKey, n)),
            Header(Str("metamask"), EvmLower, n, Base64Sig(EvmChecksum, n)),
            Header(Str("phantom"), SolKey, n, Base64Sig(EvmChecksum, n)),
            Header(Str("metamask"), EvmLower, n, Base64Sig(SolKey, n))}
           : n \in HeaderNonces}

MalformedHeaders ==
    UNION {{Str("phantom") \o Str(Colon) \o SolKey \o Str(Colon) \o n,
            Header(Str("bitcoin"), SolKey, n, Base64Sig(SolKey, n)),
            Header(Str("metamask"), EvmLower, n, Base64Sig(EvmChecksum, n)) \o Str(Colon) \o Str("x")}
           : n \in {uuidv4(1)}}

ProofHeaders == WellFormedHeaders \cup MalformedHeaders

\* req.query.chain as the caller wrote it ('' when absent).
ChainQueries == {EmptyString, Str("EVM"), Str("solana"), Str("btc")}

(***************************************************************************)
(* The gate: send402 and handlePremium.  nonces, TTL_SECONDS and the two   *)
(* receivers are the module-level globals of the server.                   *)
(***************************************************************************)
\* JavaScript truthiness of a string.
Truthy(s) == s # EmptyString

NoBody == [type |-> "none", chain |-> Undefined, receiver |-> Undefined,
           ttl |-> 0, nonce |-> Undefined, error |-> Undefined, who |-> Undefined]

ErrorBody(msg) == [NoBody EXCEPT !.type = "error", !.error = msg]

\* { x402: { chain, receiver, amount, ttl, nonce } }: the price is a fixed
\* number of the configuration and is left out.
ChallengeBody(chain, receiver, ttl, nonce) ==
    [NoBody EXCEPT !.type = "x402", !.chain = chain, !.receiver = receiver,
                   !.ttl = ttl, !.nonce = nonce]

\* { ok: true, unlocked: true, who, chain, data }
GrantBody(who, chain) == [NoBody EXCEPT !.type = "unlocked", !.who = who, !.chain = chain]

\* Mutant: the receiver is not checked before the challenge is built.
send402_NoReceiverCheck(chain) ==
    LET i == issue(map, issued, now, TTL_SECONDS)
    IN  IF chain = Str("evm")
        THEN [map |-> i.map, issued |-> issued + 1, status |-> 402,
              body |-> ChallengeBody(Str("evm"), RECEIVER_EVM, TTL_SECONDS, i.nonce)]
        ELSE [map |-> i.map, issued |-> issued + 1, status |-> 402,
              body |-> ChallengeBody(Str("solana"), RECEIVER_SOL, TTL_SECONDS, i.nonce)]

\* send402(res, { chain }): the ledger after nonces.issue() and the response.
send402(chain) ==
    LET i == issue(map, issued, now, TTL_SECONDS)
    IN  IF chain = Str("evm")
        THEN IF ~Truthy(RECEIVER_EVM)
             THEN [map |-> i.map, issued |-> issued + 1, status |-> 500,
                   body |-> ErrorBody(Str("RECEIVER_EVM not set"))]
             ELSE [map |-> i.map, issued |-> issued + 1, status |-> 402,
                   body |-> ChallengeBody(Str("evm"), RECEIVER_EVM, TTL_SECONDS, i.nonce)]
        ELSE IF ~Truthy(RECEIVER_SOL)
             THEN [map |-> i.map, issued |-> issued + 1, status |-> 500,
                   body |-> ErrorBody(Str("RECEIVER_SOL not set"))]
             ELSE [map |-> i.map, issued |-> issued + 1, status |-> 402,
                   body |-> ChallengeBody(Str("solana"), RECEIVER_SOL, TTL_SECONDS, i.nonce)]

NotCalled == [called |-> FALSE, ok |-> FALSE, reason |-> Undefined]

\* The record of one handled request: what it carried, what each stage
\* returned, and the response.
Handled(chainQuery, provenHeader, parsed, verified, nonceOk, status, body) ==
    [op |-> "request", chainQuery |-> chainQuery, hasProof |-> Truthy(provenHeader),
     parsedOk |-> parsed.ok, kind |-> parsed.kind, nonce |-> parsed.nonce,
     verifiedOk |-> verified.ok, who |-> verified.who, chain |-> verified.chain,
     nonceOk |-> nonceOk, status |-> status, body |-> body]

NotVerified == [ok |-> FALSE, reason |-> Undefined, who |-> Undefined, chain |-> Undefined]

Challenge(chainQuery, provenHeader, parsed, verified, chain) ==
    LET s == send402(chain)
    IN  [map |-> s.map, issued |-> s.issued,
         res |-> Handled(chainQuery, provenHeader, parsed, verified, NotCalled,
                         s.status, s.body)]

\* Mutant: the auto pick prefers EVM.
autoPick_PreferEvm == IF Truthy(RECEIVER_EVM) THEN Str("evm") ELSE Str("solana")

\* Auto pick: prefer Solana if set, else EVM.
autoPick == IF Truthy(RECEIVER_SOL) THEN Str("solana") ELSE Str("evm")

\* parseProof and verifyProof are pure: their results on the headers of the
\* model, computed once.
ParsedOf == [h \in ProofHeaders \cup {EmptyString} |-> parseProof(h)]

VerifiedOf == [h \in ProofHeaders \cup {EmptyString} |-> verifyProof(h)]

\* Mutant: the nonce is consumed before the signature verdict is looked at.
handlePremium_ConsumeFirst(query, provenHeader) ==
    LET chainQuery == toLowerCase(query)
        parsed == ParsedOf[provenHeader]
        verified == VerifiedOf[provenHeader]
        nonceOk == verifyAndUse(map, now, parsed.nonce)
    IN  IF Truthy(provenHeader)
        THEN IF ~parsed.ok
             THEN Challenge(chainQuery, provenHeader, parsed, NotVerified,
                            IF Truthy(chainQuery) THEN chainQuery ELSE Str("solana"))
             ELSE IF ~nonceOk.ok
             THEN [map |-> nonceOk.map, issued |-> issued,
                   res |-> Handled(chainQuery, provenHeader, parsed, verified,
                                   [called |-> TRUE, ok |-> FALSE, reason |-> nonceOk.reason],
                                   402, ErrorBody(nonceOk.reason))]
             ELSE IF ~verified.ok
             THEN [map |-> nonceOk.map, issued |-> issued,
                   res |-> Handled(chainQuery, provenHeader, parsed, verified,
                                   [called |-> TRUE, ok |-> TRUE, reason |-> Undefined],
                                   402, ErrorBody(Str("bad_signature")))]
             ELSE [map |-> nonceOk.map, issued |-> issued,
                   res |-> Handled(chainQuery, provenHeader, parsed, verified,
                                   [called |-> TRUE, ok |-> TRUE, reason |-> Undefined],
                                   200, GrantBody(verified.who, verified.chain))]
        ELSE IF chainQuery = Str("evm")
        THEN Challenge(chainQuery, provenHeader, parsed, NotVerified, Str("evm"))
        ELSE IF chainQuery = Str("solana")
        THEN Challenge(chainQuery, provenHeader, parsed, NotVerified, Str("solana"))
        ELSE Challenge(chainQuery, provenHeader, parsed, NotVerified, autoPick)

\* Mutant: a nonce failure is answered with a fresh challenge.
handlePremium_ChallengeOnNonceFail(query, provenHeader) ==
    LET chainQuery == toLowerCase(query)
        parsed == ParsedOf[provenHeader]
        verified == VerifiedOf[provenHeader]
        nonceOk == verifyAndUse(map, now, parsed.nonce)
    IN  IF Truthy(provenHeader)
        THEN IF ~parsed.ok
             THEN Challenge(chainQuery, provenHeader, parsed, NotVerified,
                            IF Truthy(chainQuery) THEN chainQuery ELSE Str("solana"))
             ELSE IF ~verified.ok
             THEN Challenge(chainQuery, provenHeader, parsed, verified,
                            IF Truthy(chainQuery) THEN chainQuery
                            ELSE IF parsed.kind = Str("metamask") THEN Str("evm")
                            ELSE Str("solana"))
             ELSE IF ~nonceOk.ok
             THEN Challenge(chainQuery, provenHeader, parsed, verified,
                            IF parsed.kind = Str("metamask") THEN Str("evm") ELSE Str("solana"))
             ELSE [map |-> nonceOk.map, issued |-> issued,
                   res |-> Handled(chainQuery, provenHeader, parsed, verified,
                                   [called |-> TRUE, ok |-> TRUE, reason |-> Undefined],
                                   200, GrantBody(verified.who, verified.chain))]
        ELSE IF chainQuery = Str("evm")
        THEN Challenge(chainQuery, provenHeader, parsed, NotVerified, Str("evm"))
        ELSE IF chainQuery = Str("solana")
        THEN Challenge(chainQuery, provenHeader, parsed, NotVerified, Str("solana"))
        ELSE Challenge(chainQuery, provenHeader, parsed, NotVerified, autoPick)

\* handlePremium(req, res), with query = req.query.chain and
\* provenHeader = req.headers['x402-proof'] ('' when absent).
handlePremium(query, provenHeader) ==
    LET chainQuery == toLowerCase(query)
        parsed == ParsedOf[provenHeader]
        verified == VerifiedOf[provenHeader]
        nonceOk == verifyAndUse(map, now, parsed.nonce)
    IN  IF Truthy(provenHeader)
        THEN IF ~parsed.ok
             THEN Challenge(chainQuery, provenHeader, parsed, NotVerified,
                            IF Truthy(chainQuery) THEN chainQuery ELSE Str("solana"))
             ELSE IF ~verified.ok
             THEN Challenge(chainQuery, provenHeader, parsed, verified,
                            IF Truthy(chainQuery) THEN chainQuery
                            ELSE IF parsed.kind = Str("metamask") THEN Str("evm")
                            ELSE Str("solana"))
             ELSE IF ~nonceOk.ok
             THEN [map |-> nonceOk.map, issued |-> issued,
                   res |-> Handled(chainQuery, provenHeader, parsed, verified,
                                   [called |-> TRUE, ok |-> FALSE, reason |-> nonceOk.reason],
                                   402, ErrorBody(nonceOk.reason))]
             ELSE [map |-> nonceOk.map, issued |-> issued,
                   res |-> Handled(chainQuery, provenHeader, parsed, verified,
                                   [called |-> TRUE, ok |-> TRUE, reason |-> Undefined],
                                   200, GrantBody(verified.who, verified.chain))]
        ELSE IF chainQuery = Str("evm")
        THEN Challenge(chainQuery, provenHeader, parsed, NotVerified, Str("evm"))
        ELSE IF chainQuery = Str("solana")
        THEN Challenge(chainQuery, provenHeader, parsed, NotVerified, Str("solana"))
        ELSE Challenge(chainQuery, provenHeader, parsed, NotVerified, autoPick)

(***************************************************************************)
(* The state machine                                                       *)
(***************************************************************************)
\* What the state keeps of the last handled request.
Summary(h) ==
    [op |-> h.op, hasProof |-> h.hasProof, parsedOk |-> h.parsedOk,
     verifiedOk |-> h.verifiedOk,
     nonce |-> IF h.nonceOk.called THEN h.nonce ELSE Undefined,
     nonceOk |-> h.nonceOk, status |-> h.status, type |-> h.body.type,
     autoPicked |-> ~h.hasProof /\ h.chainQuery \notin {Str("evm"), Str("solana")}]

Idle(op) ==
    [op |-> op, hasProof |-> FALSE, parsedOk |-> FALSE, verifiedOk |-> FALSE,
     nonce |-> Undefined, nonceOk |-> NotCalled, status |-> 0, type |-> "none",
     autoPicked |-> FALSE]

Init ==
    /\ now = 0
    /\ map = EmptyMap
    /\ issued = 0
    /\ gcDue = FALSE
    /\ TTL_SECONDS \in TtlChoices
    /\ RECEIVER_SOL \in {EmptyString, Str("SoRecv")}
    /\ RECEIVER_EVM \in {EmptyString, Str("0xRecv")}
    /\ res = Idle("start")
    /\ okCount = [n \in HeaderNonces |-> 0]
    /\ expiry = [n \in HeaderNonces |-> -1]

\* One GET or POST /premium.
Request ==
    \E query \in ChainQueries, provenHeader \in ProofHeaders \cup {EmptyString} :
        LET out == handlePremium(query, provenHeader)
        IN  /\ out.issued <= MaxNonces
            /\ map' = out.map
            /\ issued' = out.issued
            /\ res' = Summary(out.res)
            /\ okCount' = IF out.res.nonceOk.ok
                           THEN [okCount EXCEPT ![out.res.nonce] = @ + 1]
                           ELSE okCount
            /\ expiry' = IF out.issued > issued
                          THEN [expiry EXCEPT ![uuidv4(out.issued)] =
                                                 out.map[uuidv4(out.issued)].expiresAt]
                          ELSE expiry
            /\ UNCHANGED <<now, gcDue, TTL_SECONDS, RECEIVER_SOL, RECEIVER_EVM>>

\* The setInterval callback: one pending gc() run.
Gc ==
    /\ gcDue
    /\ map' = gc(map, now)
    /\ gcDue' = FALSE
    /\ res' = Idle("gc")
    /\ UNCHANGED <<now, issued, TTL_SECONDS, RECEIVER_SOL, RECEIVER_EVM, okCount, expiry>>

\* Time passes: the clock is observed once per timer period, when the
\* interval timer fires (a callback still pending is not queued twice).
Tick ==
    /\ now < MaxTicks * GcIntervalMs
    /\ now' = now + GcIntervalMs
    /\ gcDue' = TRUE
    /\ res' = Idle("tick")
    /\ UNCHANGED <<map, issued, TTL_SECONDS, RECEIVER_SOL, RECEIVER_EVM, okCount, expiry>>

Next == Request \/ Gc \/ Tick

Spec == Init /\ [][Next]_vars

\* The server as it runs: the clock advances, and the event loop runs the
\* gc() callback of the interval timer once it is due.
FairSpec == Spec /\ WF_vars(Tick) /\ WF_vars(Gc)

(***************************************************************************)
(* The proof codec and the verifier on their own: parseProof and           *)
(* verifyProof are pure, so they are applied to one header per run, drawn  *)
(* from every text of up to MaxChunks chunks and from the headers a client *)
(* composes.  res holds the header and what the call returned; the ledger  *)
(* and the configuration play no part.                                     *)
(***************************************************************************)
MaxChunks == 7      \* chunks in a header text

\* "x" is a run of characters that is neither a kind nor a base64 text.
CodecChunks == {Colon, "phantom", "x"}

RawHeaders == UNION {[1..k -> CodecChunks] : k \in 1..MaxChunks}

\* The signature wallet w makes over "x402-proof:" + n, as bytes.
Signature(w, n) ==
    [scheme |-> IF w = SolKey THEN "ed25519" ELSE "secp256k1", signer |-> w, nonce |-> n]

\* base64(signature-bytes), as the client computes it.
Base64Encode(bytes) ==
    IF bytes = JunkBytes THEN Str("AAAA") ELSE <<"b64sig", bytes.signer[1], bytes.nonce[1]>>

CodecKinds == {Str("phantom"), Str("metamask"), Str("bitcoin")}

\* Accounts and nonces a client may write, among them the empty string and
\* a string with a colon in it.
CodecAccounts == {SolKey, EvmChecksum, EvmLower, EvmOther, EmptyString, <<"a", Colon, "b">>}

CodecNonces == {uuidv4(1), uuidv4(2), EmptyString, <<"n", Colon, "1">>}

CodecSigBytes ==
    {Signature(w, n) : w \in {SolKey, EvmChecksum}, n \in {uuidv4(1), uuidv4(2)}}
    \cup {JunkBytes}

\* A text is valid standard base64 when it is the encoding of some bytes
\* (the empty text encodes no bytes); '!' is outside the base64 alphabet.
IsBase64(text) ==
    text = EmptyString \/ \E bytes \in CodecSigBytes : text = Base64Encode(bytes)

CodecSigTexts == {Base64Encode(b) : b \in CodecSigBytes} \cup {Str("!!")}

ComposedHeaders ==
    {Header(k, a, n, t) : k \in CodecKinds, a \in CodecAccounts,
                          n \in CodecNonces, t \in CodecSigTexts}

CodecHeaders == RawHeaders \cup ComposedHeaders \cup {EmptyString}

CodecInit ==
    /\ now = 0
    /\ map = EmptyMap
    /\ issued = 0
    /\ gcDue = FALSE
    /\ TTL_SECONDS \in TtlChoices
    /\ RECEIVER_SOL = EmptyString
    /\ RECEIVER_EVM = EmptyString
    /\ res \in {[op |-> "header", header |-> h] : h \in CodecHeaders}
    /\ okCount = [n \in HeaderNonces |-> 0]
    /\ expiry = [n \in HeaderNonces |-> -1]

ParseProof ==
    /\ res.op = "header"
    /\ res' = [op |-> "parseProof", header |-> res.header,
               parsed |-> parseProof(res.header)]
    /\ UNCHANGED <<now, map, issued, gcDue, TTL_SECONDS, RECEIVER_SOL,
                   RECEIVER_EVM, okCount, expiry>>

VerifyProof ==
    /\ res.op = "header"
    /\ res' = [op |-> "verifyProof", header |-> res.header,
               parsed |-> parseProof(res.header),
               verdict |-> verifyProof(res.header)]
    /\ UNCHANGED <<now, map, issued, gcDue, TTL_SECONDS, RECEIVER_SOL,
                   RECEIVER_EVM, okCount, expiry>>

CodecNext == ParseProof \/ VerifyProof

CodecSpec == CodecInit /\ [][CodecNext]_vars

(***************************************************************************)
(* Properties                                                              *)
(***************************************************************************)
\* The nonces issue() has returned so far.
Issued == {uuidv4(i) : i \in 1..issued}

AllHeaders == ProofHeaders \cup {EmptyString}

NonceReasons == {Str("nonce_not_found"), Str("nonce_expired"), Str("nonce_replayed")}

\* C1: for every nonce, verifyAndUse returns ok at most once in the whole
\* run (also after gc has evicted the entry), and a request is granted
\* (200) only by such an ok, so at most one request is granted per nonce.
C1_AtMostOneGrant ==
    /\ \A n \in DOMAIN okCount : okCount[n] <= 1
    /\ res.status = 200 => res.nonceOk.ok /\ okCount[res.nonce] = 1

\* A consumed nonce was presented again after gc evicted it, and rejected.
C1_Witness ==
    /\ res.op = "request"
    /\ res.nonceOk.called
    /\ ~res.nonceOk.ok
    /\ okCount[res.nonce] = 1
    /\ res.nonce \notin DOMAIN map

\* C2: every verifyAndUse(n) on an issued nonce that has not expired either
\* returns ok or fails with nonce_replayed, and exactly one call returned ok.
C2_Original ==
    (/\ res.op = "request"
     /\ res.nonceOk.called
     /\ res.nonce \in Issued
     /\ now <= expiry[res.nonce])
    => /\ okCount[res.nonce] = 1
       /\ res.nonceOk.ok \/ res.nonceOk.reason = Str("nonce_replayed")

\* C3: every entry keeps the expiresAt = createdAt + ttl * 1000 that issue()
\* gave it, and verifyAndUse never returns ok, nor is a request granted,
\* after that time.
C3_NoUseAfterExpiry ==
    /\ \A n \in DOMAIN map :
          /\ map[n].expiresAt = map[n].createdAt + TTL_SECONDS * 1000
          /\ map[n].expiresAt = expiry[n]
          /\ map[n].createdAt <= now
    /\ res.nonceOk.ok => now <= expiry[res.nonce]
    /\ res.status = 200 => res.nonceOk.ok

\* A verified proof over an expired nonce was rejected with nonce_expired.
C3_Witness ==
    /\ res.op = "request"
    /\ res.verifiedOk
    /\ res.nonceOk.called
    /\ res.nonceOk.reason = Str("nonce_expired")
    /\ now > expiry[res.nonce]
    /\ res.status = 402

\* C4: in every reachable state and for every request with a proof header,
\* verifyAndUse is called only if parseProof and verifyProof both returned
\* ok for that header, and a request whose proof fails either of them
\* leaves every existing ledger entry as it was.
C4_InvalidProofLeavesLedger ==
    \A query \in ChainQueries, h \in ProofHeaders :
        LET out == handlePremium(query, h)
        IN  /\ out.res.nonceOk.called => ParsedOf[h].ok /\ VerifiedOf[h].ok
            /\ ~(ParsedOf[h].ok /\ VerifiedOf[h].ok)
               => \A n \in DOMAIN map : n \in DOMAIN out.map /\ out.map[n] = map[n]

\* A proof that parsed but did not verify was handled while the first nonce
\* was in the ledger unconsumed: it is still there, unconsumed.
C4_Witness ==
    /\ res.op = "request"
    /\ res.hasProof
    /\ res.parsedOk
    /\ ~res.verifiedOk
    /\ issued = 2
    /\ uuidv4(1) \in DOMAIN map
    /\ ~map[uuidv4(1)].used

\* C5: a request is granted (200, unlocked) exactly when it carries a header
\* that parseProof and verifyProof accept and whose nonce verifyAndUse
\* accepts in that request; the grant's who is the verdict's signer and its
\* chain is 'solana' for phantom and 'evm' for metamask.
C5_GrantIff ==
    \A query \in ChainQueries, h \in AllHeaders :
        LET out == handlePremium(query, h)
            parsed == ParsedOf[h]
            verified == VerifiedOf[h]
        IN  /\ out.res.status = 200
               <=> (/\ Truthy(h)
                    /\ parsed.ok
                    /\ verified.ok
                    /\ verifyAndUse(map, now, parsed.nonce).ok)
            /\ out.res.status = 200
               => /\ out.res.body.type = "unlocked"
                  /\ out.res.nonceOk.ok
                  /\ out.res.body.who = verified.who
                  /\ parsed.kind \in {Str("phantom"), Str("metamask")}
                  /\ out.res.body.chain =
                        (IF parsed.kind = Str("phantom") THEN Str("solana") ELSE Str("evm"))

\* A request was granted.
C5_Witness ==
    /\ res.op = "request"
    /\ res.status = 200
    /\ res.type = "unlocked"
    /\ res.hasProof /\ res.parsedOk /\ res.verifiedOk /\ res.nonceOk.ok

\* C6: in every reachable state verifyAndUse(n) fails with nonce_not_found
\* for every n never issued, fails with nonce_expired for every n in the
\* ledger whose expiresAt has passed (consumed or not), and leaves the
\* ledger unchanged whenever it fails.
C6_FailureReasons ==
    \A n \in HeaderNonces \cup {Str("forged")} :
        LET r == verifyAndUse(map, now, n)
        IN  /\ n \notin Issued => ~r.ok /\ r.reason = Str("nonce_not_found")
            /\ (n \in DOMAIN map /\ now > map[n].expiresAt)
               => ~r.ok /\ r.reason = Str("nonce_expired")
            /\ ~r.ok => r.map = map

\* A consumed nonce, still in the ledger after its expiry, was presented
\* again and reported as expired.
C6_Witness ==
    /\ res.op = "request"
    /\ res.nonceOk.called
    /\ res.nonceOk.reason = Str("nonce_expired")
    /\ res.nonce \in DOMAIN map
    /\ map[res.nonce].used

\* C7: a request whose proof verifies but whose nonce verifyAndUse rejects
\* is answered 402 with an error body carrying exactly that reason and no
\* challenge, without a call of issue(): the ledger is what it was.
C7_NonceFailureNoChallenge ==
    \A query \in ChainQueries, h \in ProofHeaders :
        LET out == handlePremium(query, h)
            r == verifyAndUse(map, now, ParsedOf[h].nonce)
        IN  (ParsedOf[h].ok /\ VerifiedOf[h].ok /\ ~r.ok)
            => /\ r.reason \in NonceReasons
               /\ out.res.status = 402
               /\ out.res.body = ErrorBody(r.reason)
               /\ out.issued = issued
               /\ out.map = map

\* A verified proof over a consumed nonce was answered 402 with an error.
C7_Witness ==
    /\ res.op = "request"
    /\ res.verifiedOk
    /\ res.nonceOk.called
    /\ res.nonceOk.reason = Str("nonce_replayed")
    /\ res.status = 402
    /\ res.type = "error"

\* C8: with at least one receiving account configured, every request whose
\* proof header fails parsing is answered with a 402 challenge.
C8_Original ==
    (/\ res.op = "request"
     /\ res.hasProof
     /\ ~res.parsedOk
     /\ Truthy(RECEIVER_SOL) \/ Truthy(RECEIVER_EVM))
    => res.status = 402 /\ res.type = "x402"

\* C9: the challenge answering a proof that parses but does not verify is
\* for the scheme of the proof ('evm' for metamask, 'solana' for phantom),
\* whatever the chain query.
C9_Original ==
    \A query \in ChainQueries, h \in ProofHeaders :
        LET out == handlePremium(query, h)
        IN  (ParsedOf[h].ok /\ ~VerifiedOf[h].ok /\ out.res.body.type = "x402")
            => out.res.body.chain =
                 (IF ParsedOf[h].kind = Str("metamask") THEN Str("evm") ELSE Str("solana"))

\* C10: a request without proof and without a chain query of 'evm' or
\* 'solana' is challenged for 'solana' with RECEIVER_SOL when that is
\* configured, else for 'evm' with RECEIVER_EVM when that is configured,
\* and with neither configured it fails on the missing EVM receiver.
C10_AutoPick ==
    \A query \in ChainQueries :
        toLowerCase(query) \notin {Str("evm"), Str("solana")}
        => LET out == handlePremium(query, EmptyString)
           IN  /\ Truthy(RECEIVER_SOL)
                  => /\ out.res.status = 402
                     /\ out.res.body.type = "x402"
                     /\ out.res.body.chain = Str("solana")
                     /\ out.res.body.receiver = RECEIVER_SOL
               /\ (~Truthy(RECEIVER_SOL) /\ Truthy(RECEIVER_EVM))
                  => /\ out.res.status = 402
                     /\ out.res.body.type = "x402"
                     /\ out.res.body.chain = Str("evm")
                     /\ out.res.body.receiver = RECEIVER_EVM
               /\ (~Truthy(RECEIVER_SOL) /\ ~Truthy(RECEIVER_EVM))
                  => /\ out.res.status = 500
                     /\ out.res.body = ErrorBody(Str("RECEIVER_EVM not set"))

\* With only the EVM receiver configured, a request without proof and
\* without a chain was challenged.
C10_Witness ==
    /\ res.op = "request"
    /\ res.autoPicked
    /\ res.status = 402
    /\ ~Truthy(RECEIVER_SOL)
    /\ Truthy(RECEIVER_EVM)

\* The chain arguments handlePremium can pass to send402: the two known
\* chains and a chain query that is neither.
Send402Chains == {Str("evm"), Str("solana"), Str("btc")}

\* C11: send402 for chain c answers 500 exactly when the receiver of c is not
\* configured (RECEIVER_EVM for 'evm', RECEIVER_SOL for any other value);
\* otherwise it answers 402 with a challenge for c's chain, the configured
\* non-empty receiver and the configured TTL.  No challenge carries an empty
\* receiver, and a request answered with a challenge is answered 402.
C11_MissingReceiver ==
    /\ \A c \in Send402Chains :
          LET s == send402(c)
              receiver == IF c = Str("evm") THEN RECEIVER_EVM ELSE RECEIVER_SOL
          IN  /\ s.status = 500 <=> ~Truthy(receiver)
              /\ s.status = 500 => s.body.type = "error"
              /\ Truthy(receiver)
                 => /\ s.status = 402
                    /\ s.body.type = "x402"
                    /\ s.body.chain = (IF c = Str("evm") THEN Str("evm") ELSE Str("solana"))
                    /\ s.body.receiver = receiver
                    /\ s.body.ttl = TTL_SECONDS
              /\ s.body.type = "x402" => Truthy(s.body.receiver)
    /\ res.op = "request" /\ res.type = "x402" => res.status = 402

\* With only the EVM receiver configured, a request was answered 500.
C11_Witness ==
    /\ res.op = "request"
    /\ res.status = 500
    /\ res.type = "error"
    /\ ~Truthy(RECEIVER_SOL)
    /\ Truthy(RECEIVER_EVM)

\* The segments of the header the last call was given.
Parts == split(res.header)

RegisteredKinds == {Str("phantom"), Str("metamask")}

\* C12: parseProof fails with bad_format for every (non-empty) header whose
\* split on ':' does not yield four segments, or yields four segments of
\* which at least one is empty.
C12_Original ==
    (/\ res.op = "parseProof"
     /\ Truthy(res.header)
     /\ \/ Len(Parts) # ProofFields
        \/ \E i \in 1..Len(Parts) : Parts[i] = EmptyString)
    => ~res.parsed.ok /\ res.parsed.reason = Str("bad_format")

\* C13: parseProof fails with bad_b64 for every header of four (non-empty)
\* segments with a registered kind whose signature segment is not valid
\* standard base64.
C13_Original ==
    (/\ res.op = "parseProof"
     /\ Len(Parts) = ProofFields
     /\ Parts[1] \in RegisteredKinds
     /\ \A i \in 1..ProofFields : Parts[i] # EmptyString
     /\ ~IsBase64(Parts[4]))
    => ~res.parsed.ok /\ res.parsed.reason = Str("bad_b64")

VerifyErrors == {Str("phantom_verify_error"), Str("metamask_verify_error")}

\* C14: verifyProof returns a verdict for every header and never throws: a
\* header parseProof rejects gets the parse failure's reason, a library
\* error on the phantom path gives phantom_verify_error and one on the
\* metamask path metamask_verify_error; no verdict handlePremium receives
\* is an exception.
C14_NeverThrows ==
    /\ res.op = "verifyProof"
       => LET parsed == res.parsed
              pub == bs58decode(parsed.account)
          IN  /\ res.verdict # Threw
              /\ res.verdict.ok \in BOOLEAN
              /\ ~parsed.ok
                 => res.verdict = [ok |-> FALSE, reason |-> parsed.reason,
                                   who |-> Undefined, chain |-> Undefined]
              /\ (/\ parsed.ok
                  /\ parsed.kind = Str("phantom")
                  /\ \/ pub.threw
                     \/ naclVerify(parsed.nonce, parsed.sigBytes, pub.value).threw)
                 => ~res.verdict.ok /\ res.verdict.reason = Str("phantom_verify_error")
              /\ (/\ parsed.ok
                  /\ parsed.kind = Str("metamask")
                  /\ verifyMessage(parsed.nonce, parsed.sigBytes).threw)
                 => ~res.verdict.ok /\ res.verdict.reason = Str("metamask_verify_error")
              /\ res.verdict.reason \in VerifyErrors
                 => parsed.ok /\ ~res.verdict.ok
    /\ \A h \in AllHeaders : VerifiedOf[h] # Threw

\* A phantom proof whose account is no base58 key made bs58.decode throw,
\* and the verdict is phantom_verify_error.
C14_Witness ==
    /\ res.op = "verifyProof"
    /\ res.parsed.ok
    /\ res.parsed.kind = Str("phantom")
    /\ bs58decode(res.parsed.account).threw
    /\ res.verdict.reason = Str("phantom_verify_error")

\* C15: a metamask verdict is ok exactly when verifyMessage returns an
\* address and that address equals the claimed account up to letter case;
\* every metamask verdict that is not an error names the recovered address
\* as who.  A claimed account differing from the recovered address only in
\* case is accepted, any other account is not.  A phantom verdict that is
\* ok names the claimed account as who.
C15_AddressMatch ==
    res.op = "verifyProof" /\ res.parsed.ok
    => LET parsed == res.parsed
           recovered == verifyMessage(parsed.nonce, parsed.sigBytes)
       IN  /\ parsed.kind = Str("metamask")
              => /\ res.verdict.ok
                    <=> (/\ ~recovered.threw
                         /\ toLowerCase(recovered.value) = toLowerCase(parsed.account))
                 /\ ~recovered.threw => res.verdict.who = recovered.value
                 /\ (~recovered.threw /\ recovered.value = EvmChecksum)
                    => (res.verdict.ok <=> parsed.account \in {EvmChecksum, EvmLower})
           /\ (parsed.kind = Str("phantom") /\ res.verdict.ok)
              => res.verdict.who = parsed.account

\* The claimed account is the lower-case form of the recovered checksum
\* address: the verdict is ok and names the recovered address.
C15_Witness ==
    /\ res.op = "verifyProof"
    /\ res.parsed.ok
    /\ res.parsed.kind = Str("metamask")
    /\ res.parsed.account = EvmLower
    /\ res.verdict.ok
    /\ res.verdict.who = EvmChecksum

\* What parseProof returns when it accepts a header with these fields.
ParsedOk(kind, account, nonce, sigBytes) ==
    [ok |-> TRUE, reason |-> Undefined, kind |-> kind, account |-> account,
     nonce |-> nonce, sigBytes |-> sigBytes]

\* C16 as stated: for every registered kind, every account and nonce string
\* and all signature bytes, the header kind:account:nonce:base64(sig) parses
\* back to the same kind, account, nonce and bytes.
C16_Original ==
    \A kind \in RegisteredKinds, account \in CodecAccounts,
       nonce \in CodecNonces, sig \in CodecSigBytes :
        (/\ res.op = "parseProof"
         /\ res.header = Header(kind, account, nonce, Base64Encode(sig)))
        => res.parsed = ParsedOk(kind, account, nonce, sig)

\* C16: for every registered kind, every account and nonce string without
\* a colon and all signature bytes, the header
\* kind:account:nonce:base64(sig) parses back to the same kind, account,
\* nonce and bytes.
C16_RoundTrip ==
    \A kind \in RegisteredKinds, account \in CodecAccounts,
       nonce \in CodecNonces, sig \in CodecSigBytes :
        (/\ res.op = "parseProof"
         /\ ~HasColon(account)
         /\ ~HasColon(nonce)
         /\ res.header = Header(kind, account, nonce, Base64Encode(sig)))
        => res.parsed = ParsedOk(kind, account, nonce, sig)

\* The header of a metamask proof built from its four fields was parsed.
C16_Witness ==
    /\ res.op = "parseProof"
    /\ res.header = Header(Str("metamask"), EvmLower, uuidv4(2),
                           Base64Encode(Signature(EvmChecksum, uuidv4(2))))
    /\ res.parsed.ok
    /\ res.parsed.sigBytes = Signature(EvmChecksum, uuidv4(2))

\* C17: gc() removes exactly the entries that are used or whose expiresAt
\* plus 60 s is earlier than now and leaves every other entry as it was; so
\* a nonce no request has consumed is in the ledger until 60 s after its
\* expiry, and between expiry and then verifyAndUse reports nonce_expired.
C17_GcEvictsExactly ==
    /\ LET after == gc(map, now)
       IN  /\ DOMAIN after \subseteq DOMAIN map
           /\ \A n \in DOMAIN map :
                 /\ n \notin DOMAIN after
                    <=> (map[n].used \/ map[n].expiresAt + 60000 < now)
                 /\ n \in DOMAIN after => after[n] = map[n]
    /\ \A n \in Issued :
          (okCount[n] = 0 /\ now <= expiry[n] + 60000)
          => /\ n \in DOMAIN map
             /\ now > expiry[n]
                => LET r == verifyAndUse(map, now, n)
                   IN  ~r.ok /\ r.reason = Str("nonce_expired")

\* gc() has run after the expiry of an unconsumed nonce and within its
\* grace period: the nonce is still in the ledger.
C17_Witness ==
    /\ res.op = "gc"
    /\ \E n \in DOMAIN map : ~map[n].used /\ now > map[n].expiresAt

\* The last instant of the run: the clock is not followed further.
Horizon == MaxTicks * GcIntervalMs

\* C18: with the clock advancing and the periodic gc() running, every
\* issued nonce whose expiry plus grace lies before the end of the run is
\* eventually absent from the ledger, and a nonce that has left the ledger
\* is never in it again.
C18_EventuallyEvicted ==
    /\ \A n \in HeaderNonces :
          (n \in DOMAIN map /\ expiry[n] + GcGraceMs < Horizon) ~> (n \notin DOMAIN map)
    /\ [][\A n \in Issued : n \notin DOMAIN map => n \notin DOMAIN map']_vars

\* gc() has evicted a nonce that no request had consumed.
C18_Witness ==
    /\ res.op = "gc"
    /\ \E n \in Issued : n \notin DOMAIN map /\ okCount[n] = 0

\* C19: a request that calls issue() is answered 402 with a challenge, and
\* a request answered 500 or with a nonce failure leaves the set of ledger
\* entries as it was.
C19_Original ==
    [][res'.op = "request"
       => /\ issued' > issued => res'.status = 402 /\ res'.type = "x402"
          /\ (res'.status = 500 \/ (res'.nonceOk.called /\ ~res'.nonceOk.ok))
             => DOMAIN map' = DOMAIN map]_vars

\* The step consumes nonce n: its verifyAndUse(n) returned ok.
Consumes(n) == res'.op = "request" /\ res'.nonceOk.ok /\ res'.nonce = n

\* C20: an issued nonce stays in the ledger, unused and with the expiresAt
\* issue() gave it, until a verifyAndUse of it returns ok or the clock has
\* passed expiresAt + 60 s; a step changes the entry of n only by consuming
\* n (setting used) or by a gc() run that finds it used or past its grace
\* period.  So every request with a valid proof for an issued, unconsumed
\* nonce, made no later than its expiresAt, is granted.
C20_EntryStable ==
    /\ [](\A n \in Issued :
            (okCount[n] = 0 /\ now <= expiry[n] + GcGraceMs)
            => /\ n \in DOMAIN map
               /\ ~map[n].used
               /\ map[n].expiresAt = expiry[n])
    /\ [](\A n \in Issued, query \in ChainQueries, h \in ProofHeaders :
            (/\ ParsedOf[h].ok
             /\ VerifiedOf[h].ok
             /\ ParsedOf[h].nonce = n
             /\ okCount[n] = 0
             /\ now <= expiry[n])
            => handlePremium(query, h).res.status = 200)
    /\ [][\A n \in DOMAIN map :
            \/ n \in DOMAIN map' /\ map'[n] = map[n]
            \/ /\ Consumes(n)
               /\ ~map[n].used
               /\ n \in DOMAIN map'
               /\ map'[n] = [map[n] EXCEPT !.used = TRUE]
            \/ /\ res'.op = "gc"
               /\ n \notin DOMAIN map'
               /\ map[n].used \/ now > map[n].expiresAt + GcGraceMs]_vars

\* The first nonce was consumed at the instant of its expiry, after gc()
\* had run and a second nonce had been issued.
C20_Witness ==
    /\ res.op = "request"
    /\ res.status = 200
    /\ res.nonce = uuidv4(1)
    /\ issued = 2
    /\ now = expiry[uuidv4(1)]
    /\ now > 0
    /\ ~gcDue

====
